---- MODULE Spec2Model ----
(***************************************************************************)
(* Peer persistence of the network stack:                                  *)
(*   client/network/src/persist_peers.rs             PersistPeerAddrs,     *)
(*                                                   PersistPeersets, Paths *)
(*   client/network/src/peer_addresses_persistence.rs  Enabled            *)
(*                                                                         *)
(* The address book is a map from protocol to an LRU cache of peers, each  *)
(* with a set of addresses.  A cache is a sequence of entries, the most    *)
(* recently used first: that is the order LruCache::iter visits them in.   *)
(***************************************************************************)
EXTENDS Integers, Sequences, FiniteSets, TLC

VARIABLES
    sched,      \* which component was constructed: "PersistPeerAddrs", "Enabled"
                \* or "PersistPeersets"
    protocols,  \* PersistPeerAddrs.protocols
    entries,    \* Enabled.entries
    latest,     \* the address list the driver hands to Enabled::poll
    elapsed,    \* flushed_at.elapsed(), in seconds, saturating above the cooldown
    busy,       \* the boxed persist future, or None
    pool,       \* file operations handed to the blocking pool, not yet executed
    fs,         \* content of the final path and of the tmp path
    synced,     \* whether the content of the tmp path was forced to stable storage
    outcome,    \* the result poll took from the last future that completed
    yielded,    \* what the last peer_addrs call yielded, until the next call on the book
    snapshot,   \* the entries poll has just flattened out of the book, the book they
                \* were taken of, and whether a book was loaded from them since
    reported,   \* history: every (peer, protocol, addr) reported to this book
    evicted,    \* history: every (protocol, peer) whose entry was evicted
    fresh,      \* history: the peers inserted so far, while the book has seen
                \* nothing but first reports of distinct peers under one protocol
    ncalls,     \* history: number of calls made on the book
    last_report, \* history: the arguments of the report_peer_addr call made last on
                \* the book, and whether the call before it was the same
    load_result,   \* the result of the load that constructed the component: "Ok", or
                \* "Err" (the warning of PersistPeerAddrs::load); None before any load
    peerset,    \* the peer set: (peer, reputation, sets) of every peer, as
                \* peersets::load returned it and as dump_state reports it
    loop,       \* where the future of PersistPeersets waits: "tick", "dump", "persist"
    dumped,     \* what came back on the oneshot channel of dump_state, or None
    phase,      \* seconds since the interval's last deadline
    missed,     \* deadlines of the interval that passed and that no tick() returned for
    starts,     \* history: persist cycles started since the last deadline
    skipped,    \* history: deadlines the last tick() dropped
    dir,        \* the directory given to Paths::new
    name,       \* the base name given to Paths::new
    paths,      \* the Paths constructed of them, or None
    connections, \* the connection tracker: the connection ids of every tracked peer
    aborted,    \* whether the tracker has aborted the process
    last_event  \* history: what the last event did to the tracker

vars == <<sched, protocols, entries, latest, elapsed, busy, pool, fs, synced, outcome,
          yielded, snapshot, reported, evicted, fresh, ncalls, last_report,
          load_result, peerset, loop, dumped, phase, missed, starts, skipped,
          dir, name, paths, connections, aborted, last_event>>

schedVars == <<sched, entries, latest, elapsed, busy, pool, fs, synced, outcome>>
bookHistory == <<reported, evicted, fresh>>
bookObs == <<yielded, snapshot, reported, evicted, fresh, ncalls, last_report>>

\* The state of the peer-set snapshotter.
loopVars == <<loop, dumped, missed, starts, skipped>>
peersetVars == <<peerset, loopVars, phase>>

\* Paths::new and its arguments.
pathVars == <<dir, name, paths>>

\* The connection tracker.
connVars == <<connections, aborted, last_event>>

\* What no operation of the address book or of its schedulers touches.
elsewhere == <<peersetVars, pathVars, connVars>>

(***************************************************************************)
(* Constants of the program and bounds of the model.                       *)
(***************************************************************************)
FLUSH_INTERVAL == 5
MIN_WRITE_INTERVAL == 10

\* Capacity of one protocol's cache.  The program's value is 100; the model
\* checks the same code with a small capacity.
PEER_ADDRS_CACHE_SIZE == 2

\* Number of calls (report_peer_addr, peer_addrs) explored on the book alone.
MaxCalls == 4

\* A serialized document is written in this many pieces.
WriteChunks == 2

\* Number of records in a file that is read at start.
MaxRecords == 3

\* Number of connection ids.
MaxConns == 2

\* Number of components of a directory given to Paths::new.
MaxDepth == 2

\* Deadlines of the interval counted as missed; more count as this many.
MaxMissed == 2

Peers == 1 .. (PEER_ADDRS_CACHE_SIZE + 1)
Protocols == {"dot", "ksm"}
Addrs == {"ip4", "ip6"}

\* Option<T>: None, or Some(x); x is v[1].
None == <<>>
Some(x) == <<x>>

(***************************************************************************)
(* LruCache<PeerId, HashSet<Multiaddr>>                                    *)
(***************************************************************************)
PeerEntry(p, as) == [peer_id |-> p, addrs |-> as]

LruNew == <<>>

LruKeys(c) == {c[i].peer_id : i \in 1 .. Len(c)}

LruIndex(c, p) == CHOOSE i \in 1 .. Len(c) : c[i].peer_id = p

LruRemoveAt(c, i) == SubSeq(c, 1, i - 1) \o SubSeq(c, i + 1, Len(c))

\* LruCache::peek: the value of key p; the order is untouched.
LruPeek(c, p) == c[LruIndex(c, p)].addrs

\* LruCache::get and get_mut: key p becomes the most recently used.
LruGet(c, p) ==
    IF p \in LruKeys(c)
    THEN <<c[LruIndex(c, p)]>> \o LruRemoveAt(c, LruIndex(c, p))
    ELSE c

\* A push that drops the most recently used entry at capacity.
LruPushMru(c, p, as) ==
    IF p \in LruKeys(c)
    THEN <<PeerEntry(p, as)>> \o LruRemoveAt(c, LruIndex(c, p))
    ELSE IF Len(c) >= PEER_ADDRS_CACHE_SIZE
         THEN <<PeerEntry(p, as)>> \o SubSeq(c, 2, PEER_ADDRS_CACHE_SIZE)
         ELSE <<PeerEntry(p, as)>> \o c

\* LruCache::push: an existing key is updated and becomes the most recently
\* used; a new key enters at the front, and at capacity the least recently
\* used entry (the last) leaves.
LruPush(c, p, as) ==
    IF p \in LruKeys(c)
    THEN <<PeerEntry(p, as)>> \o LruRemoveAt(c, LruIndex(c, p))
    ELSE IF Len(c) >= PEER_ADDRS_CACHE_SIZE
         THEN <<PeerEntry(p, as)>> \o SubSeq(c, 1, PEER_ADDRS_CACHE_SIZE - 1)
         ELSE <<PeerEntry(p, as)>> \o c

\* A report that adds the address where the entry is, as peek_mut would.
ReportedCacheInPlace(c, p, a) ==
    IF p \in LruKeys(c)
    THEN [c EXCEPT ![LruIndex(c, p)].addrs = @ \cup {a}]
    ELSE LruPush(c, p, {a})

\* A report that never finds the peer in the cache.
ReportedCacheAlwaysNew(c, p, a) ==
    <<PeerEntry(p, {a})>> \o
        SubSeq(c, 1, IF Len(c) >= PEER_ADDRS_CACHE_SIZE THEN PEER_ADDRS_CACHE_SIZE - 1 ELSE Len(c))

\* The key push drops, if any.
LruPushEvicts(c, p) ==
    IF p \notin LruKeys(c) /\ Len(c) >= PEER_ADDRS_CACHE_SIZE
    THEN {c[Len(c)].peer_id}
    ELSE {}

(***************************************************************************)
(* HashMap<ProtocolType, LruCache<..>>                                     *)
(***************************************************************************)
MapPut(m, k, v) == [j \in DOMAIN m \cup {k} |-> IF j = k THEN v ELSE m[j]]

\* protocols.entry(protocol).or_insert_with(|| LruCache::new(..))
EntryOrInsert(m, pr) == IF pr \in DOMAIN m THEN m[pr] ELSE LruNew

(***************************************************************************)
(* PersistPeerAddrs::report_peer_addr                                      *)
(***************************************************************************)
ReportedCache(c, p, a) ==
    IF p \in LruKeys(c)
    THEN LET got == LruGet(c, p)
         IN  [got EXCEPT ![1].addrs = @ \cup {a}]
    ELSE LruPush(c, p, {a})

BookAfterReport(b, p, pr, a) ==
    MapPut(b, pr, ReportedCache(EntryOrInsert(b, pr), p, a))

FreshAfterReport(p, pr) ==
    IF /\ fresh # None
       /\ DOMAIN protocols \subseteq {pr}
       /\ \A i \in 1 .. Len(fresh[1]) : fresh[1][i] # p
    THEN Some(Append(fresh[1], p))
    ELSE None

report_peer_addr(p, pr, a) ==
    /\ protocols' = BookAfterReport(protocols, p, pr, a)
    /\ reported' = reported \cup {<<p, pr, a>>}
    /\ evicted' = evicted \cup
                    {<<pr, q>> : q \in LruPushEvicts(EntryOrInsert(protocols, pr), p)}
    /\ fresh' = FreshAfterReport(p, pr)
    /\ yielded' = None
    /\ snapshot' = None

(***************************************************************************)
(* PersistPeerAddrs::peer_addrs, the returned iterator consumed to its end *)
(***************************************************************************)
\* The caches the filter_map keeps.
Requested(b, prs) == DOMAIN b \cap prs

\* entries.get(peer_id) on every kept cache.
BookAfterLookup(b, p, prs) ==
    [pr \in DOMAIN b |-> IF pr \in prs THEN LruGet(b[pr], p) ELSE b[pr]]

\* A lookup whose filter_map keeps every cache.
LookupYieldAll(b, p, prs) ==
    UNION {LruPeek(b[pr], p) : pr \in {q \in DOMAIN b : p \in LruKeys(b[q])}}

\* The addresses the iterator yields, as a set.
LookupYield(b, p, prs) ==
    UNION {LruPeek(b[pr], p) : pr \in {q \in Requested(b, prs) : p \in LruKeys(b[q])}}

peer_addrs(p, prs) ==
    /\ yielded' = Some([peer_id |-> p, protocols |-> prs,
                         addrs |-> LookupYield(protocols, p, prs)])
    /\ protocols' = BookAfterLookup(protocols, p, prs)
    /\ fresh' = None
    /\ snapshot' = None
    /\ UNCHANGED <<reported, evicted>>

(***************************************************************************)
(* The snapshot poll builds, and PersistPeerAddrs::load                    *)
(***************************************************************************)
\* PeerId::to_base58 and its inverse, str::parse::<PeerId>.
ToBase58(p) == <<"b58", p>>
ParseOk(text) == text[1] = "b58"
ParsePeerId(text) == text[2]

\* Every order a HashSet may be iterated in.
Perms(S) == {q \in [1 .. Cardinality(S) -> S] : \A x \in S : \E i \in DOMAIN q : q[i] = x}

\* A snapshot that keeps one address of each peer.
EntrySnapshotsFirst(e) ==
    {[peer_id |-> ToBase58(e.peer_id), addrs |-> SubSeq(q, 1, 1)] : q \in Perms(e.addrs)}

EntrySnapshots(e) ==
    {[peer_id |-> ToBase58(e.peer_id), addrs |-> q] : q \in Perms(e.addrs)}

CacheSnapshots(c) ==
    {s \in [1 .. Len(c) -> UNION {EntrySnapshots(c[i]) : i \in 1 .. Len(c)}] :
        \A i \in 1 .. Len(c) : s[i] \in EntrySnapshots(c[i])}

\* Every value of `entries` poll may hand to persist for book b.
Snapshots(b) ==
    {s \in [DOMAIN b -> UNION {CacheSnapshots(b[pr]) : pr \in DOMAIN b}] :
        \A pr \in DOMAIN b : s[pr] \in CacheSnapshots(b[pr])}

Range(q) == {q[i] : i \in DOMAIN q}

Reverse(q) == [i \in 1 .. Len(q) |-> q[Len(q) + 1 - i]]

RECURSIVE FoldPush(_, _)
\* entries.fold(acc, |acc, entry| ...): push each parsable entry in turn.
FoldPush(acc, es) ==
    IF es = <<>>
    THEN acc
    ELSE FoldPush(IF ParseOk(es[1].peer_id)
                  THEN LruPush(acc, ParsePeerId(es[1].peer_id), Range(es[1].addrs))
                  ELSE acc,
                  Tail(es))

\* A load that gives up the whole map when one identity does not parse.
LoadBookStrict(restored) ==
    IF \A pr \in DOMAIN restored :
          \A i \in 1 .. Len(restored[pr]) : ParseOk(restored[pr][i].peer_id)
    THEN [pr \in DOMAIN restored |-> FoldPush(LruNew, Reverse(restored[pr]))]
    ELSE <<>>

\* A load that replays the entries in snapshot order.
LoadCacheForward(es) == FoldPush(LruNew, es)

LoadCache(es) == FoldPush(LruNew, Reverse(es))

LoadBook(restored) == [pr \in DOMAIN restored |-> LoadCache(restored[pr])]

\* The state a book is constructed in from a load_result map.
Loaded(restored) ==
    /\ protocols' = LoadBook(restored)
    /\ fresh' = None
    /\ yielded' = None

(***************************************************************************)
(* Files.  A path holds no file (None) or Some(content); content is the    *)
(* sequence of pieces written so far.                                      *)
(***************************************************************************)
\* The number of pieces of the serialized document d: it grows with the
\* number of entries of d.
DocLen(d) == WriteChunks + Cardinality(DOMAIN d)

\* serde_json::to_vec_pretty
Serialize(d) == [i \in 1 .. DocLen(d) |-> <<i, d>>]

\* serde_json::from_reader succeeds on a whole document and on nothing else.
Decodable(content) ==
    /\ content # <<>>
    /\ content[1][1] = 1
    /\ Len(content) = DocLen(content[1][2])
    /\ \A i \in 1 .. Len(content) : content[i] = <<i, content[1][2]>>
Deserialize(content) == content[1][2]

\* What a write that fails may leave in the file.
Partial(d) == {SubSeq(Serialize(d), 1, k) : k \in 0 .. DocLen(d) - 1}

\* The content of a file after bytes are written at its start.
WrittenOver(old, bytes) == bytes \o SubSeq(old, Len(bytes) + 1, Len(old))

\* An open without truncate(true): what the file holds stays.
OpenedKeeping(file) == IF file = None THEN <<>> ELSE file[1]

\* OpenOptions::new().create(true).write(true).truncate(true).open(..): the
\* file is there and empty, whatever it held.
Opened(file) == <<>>

(***************************************************************************)
(* Paths.  A path is the sequence of its components, a component the       *)
(* sequence of the pieces its dots separate: /tmp/test.json is             *)
(* <<<<"tmp">>, <<"test", "json">>>>.                                       *)
(***************************************************************************)
\* PathBuf::push, Path::join of one relative component
Push(p, n) == Append(p, n)

\* Path::file_stem: the file name without what follows its last dot.
FileStem(c) == IF Len(c) > 1 THEN SubSeq(c, 1, Len(c) - 1) ELSE c

\* A with_extension that leaves the path as it is.
WithExtensionKept(p, ext) == p

\* Path::with_extension: the extension of the last component is replaced, or
\* added when it has none; a path of no component stays as it is.
WithExtension(p, ext) ==
    IF p = <<>>
    THEN p
    ELSE [p EXCEPT ![Len(p)] = Append(FileStem(p[Len(p)]), ext)]

\* Paths::new
Paths_new(net_config_path, n) ==
    LET p == Push(net_config_path, n)
    IN  [path |-> WithExtension(p, "json"), tmp_path |-> WithExtension(p, "tmp")]

\* The path peersets::load opens.
PeersetsLoadPath(d) == Push(d, <<"peer-sets", "json">>)

(***************************************************************************)
(* Initial state: the scheduler right after construction, no file on disk  *)
(***************************************************************************)
\* The path pair of the component: Paths::new(dir, "peer-addrs") of
\* PersistPeerAddrs, Paths::new(dir, "peer-sets") of PersistPeersets.
NetworkPaths ==
    /\ dir = <<<<"net">>>>
    /\ name = IF sched = "PersistPeersets" THEN <<"peer-sets">> ELSE <<"peer-addrs">>
    /\ paths = Some(Paths_new(dir, name))

\* The connection tracker starts empty.
NoConnections ==
    /\ connections = <<>>
    /\ aborted = FALSE
    /\ last_event = None

\* The future PersistPeersets::new boxes, before its first poll: the first
\* tick of a tokio interval is due at once.
NotPolledYet ==
    /\ loop = "tick"
    /\ dumped = None
    /\ phase = 0
    /\ missed = 1
    /\ starts = 0
    /\ skipped = 0

Init ==
    /\ sched \in {"PersistPeerAddrs", "Enabled"}
    /\ protocols = <<>>
    /\ entries = <<>>
    /\ latest = <<>>
    /\ elapsed = 0
    /\ busy = None
    /\ pool = {}
    /\ fs = [path |-> None, tmp_path |-> None]
    /\ synced = FALSE
    /\ outcome = None
    /\ yielded = None
    /\ snapshot = None
    /\ reported = {}
    /\ evicted = {}
    /\ fresh = Some(<<>>)
    /\ ncalls = 0
    /\ last_report = None
    /\ load_result = Some("Ok")
    /\ peerset = <<>>
    /\ NotPolledYet
    /\ NoConnections
    /\ NetworkPaths

(***************************************************************************)
(* The book alone: reports, lookups, a snapshot and a load from it         *)
(***************************************************************************)
\* Peer identities are opaque and interchangeable: a peer that is new to the
\* book is taken to be the least one not reported yet.
Known == {t[1] : t \in reported}
ReportablePeers == {p \in Peers : \A q \in Peers : q < p => q \in Known}

Report ==
    \E p \in ReportablePeers, pr \in Protocols, a \in Addrs :
        /\ ncalls < MaxCalls
        /\ ncalls' = ncalls + 1
        /\ report_peer_addr(p, pr, a)
        /\ last_report' = Some([args |-> <<p, pr, a>>,
                                 again |-> last_report # None /\ last_report[1].args = <<p, pr, a>>])
        /\ UNCHANGED <<schedVars, load_result, elsewhere>>

Lookup ==
    \E p \in Peers, prs \in SUBSET Protocols :
        /\ ncalls < MaxCalls
        /\ ncalls' = ncalls + 1
        /\ peer_addrs(p, prs)
        /\ last_report' = None
        /\ UNCHANGED <<schedVars, load_result, elsewhere>>

\* The first half of a write: poll flattens the book.
Flatten ==
    /\ snapshot = None
    /\ \E s \in Snapshots(protocols) :
           snapshot' = Some([entries |-> s, of |-> protocols, loaded |-> FALSE])
    /\ yielded' = None
    /\ UNCHANGED <<schedVars, protocols, bookHistory, ncalls, last_report, load_result, elsewhere>>

\* The snapshot is written out whole, and the process starts again on the file.
Reload ==
    /\ snapshot # None
    /\ ~snapshot[1].loaded
    /\ Loaded(Deserialize(Serialize(snapshot[1].entries)))
    /\ snapshot' = Some([snapshot[1] EXCEPT !.loaded = TRUE])
    /\ last_report' = None
    /\ UNCHANGED <<schedVars, reported, evicted, ncalls, load_result, elsewhere>>

InitBook == Init /\ sched = "PersistPeerAddrs"

NextBook == Report \/ Lookup \/ Flatten \/ Reload

SpecBook == InitBook /\ [][NextBook]_vars

(***************************************************************************)
(* async fn persist: open tmp, write_all, flush (sync_data), rename.  The  *)
(* future is a position (pc) and the state of the file operation it awaits *)
(* (io); each operation runs on the blocking pool.                         *)
(***************************************************************************)
NewFuture(d) == [pc |-> "created", io |-> "idle", data |-> d, found |-> None]

\* persist without the `?` after write_all and flush: an error there is dropped.
PersistNextIgnoringErr(pc, io) ==
    CASE pc = "created" -> "open"
      [] io = "pending" -> pc
      [] io = "err" /\ pc \in {"open", "rename"} -> "Err"
      [] pc = "open" -> "write"
      [] pc = "write" -> "flush"
      [] pc = "flush" -> "rename"
      [] OTHER -> "Ok"

\* Where one poll of the future takes it: the operation it submits next, the
\* operation it still awaits, or its result.
PersistNext(pc, io) ==
    CASE pc = "created" -> "open"
      [] io = "pending" -> pc
      [] io = "err" -> "Err"
      [] pc = "open" -> "write"
      [] pc = "write" -> "flush"
      [] pc = "flush" -> "rename"
      [] OTHER -> "Ok"

Ready(f) == PersistNext(f.pc, f.io) \in {"Ok", "Err"}

Submits(f) == ~Ready(f) /\ (f.pc = "created" \/ f.io # "pending")

\* A future that reads the book when it hands an operation to the pool, not
\* the entries it was given.
OperationOnLiveBook(f) ==
    [op |-> PersistNext(f.pc, f.io),
     data |-> IF sched = "Enabled" THEN latest ELSE CHOOSE d \in Snapshots(protocols) : TRUE]

Operation(f) == [op |-> PersistNext(f.pc, f.io), data |-> f.data]

\* A poll that keeps the old cooldown baseline when the write failed.
PollFutureErrKeepsBaseline ==
    LET f == busy[1]
    IN  IF Ready(f)
        THEN /\ busy' = None
             /\ elapsed' = IF PersistNext(f.pc, f.io) = "Err" THEN elapsed ELSE 0
             /\ outcome' = Some(PersistNext(f.pc, f.io))
             /\ UNCHANGED pool
        ELSE IF Submits(f)
        THEN /\ busy' = Some([f EXCEPT !.pc = PersistNext(f.pc, f.io), !.io = "pending"])
             /\ pool' = pool \cup {Operation(f)}
             /\ UNCHANGED <<elapsed, outcome>>
        ELSE UNCHANGED <<busy, pool, elapsed, outcome>>

\* busy_future.poll_unpin(cx), and what poll does with Poll::Ready.
PollFuture ==
    LET f == busy[1]
    IN  IF Ready(f)
        THEN /\ busy' = None
             /\ elapsed' = 0
             /\ outcome' = Some(PersistNext(f.pc, f.io))
             /\ UNCHANGED pool
        ELSE IF Submits(f)
        THEN /\ busy' = Some([f EXCEPT !.pc = PersistNext(f.pc, f.io), !.io = "pending"])
             /\ pool' = pool \cup {Operation(f)}
             /\ UNCHANGED <<elapsed, outcome>>
        ELSE UNCHANGED <<busy, pool, elapsed, outcome>>

\* The file system after operation o ran, with or without an error.
FsAfter(o, ok) ==
    CASE o.op = "open" ->
            IF ok THEN {[fs EXCEPT !.tmp_path = Some(Opened(fs.tmp_path))]} ELSE {fs}
      [] o.op = "write" ->
            LET old == IF fs.tmp_path = None THEN <<>> ELSE fs.tmp_path[1]
            IN  IF ok THEN {[fs EXCEPT !.tmp_path = Some(WrittenOver(old, Serialize(o.data)))]}
                      ELSE {[fs EXCEPT !.tmp_path = Some(WrittenOver(old, c))] :
                               c \in Partial(o.data)}
      [] o.op = "rename" ->
            IF ok THEN {[path |-> fs.tmp_path, tmp_path |-> None]} ELSE {fs}
      [] OTHER -> {fs}

\* Whether the tmp file's content is on stable storage after operation o:
\* File::flush hands the written bytes to the operating system and no
\* further, File::sync_data returns when they are on the device.
SyncedAfter(o, ok) ==
    CASE o.op = "open" -> IF ok THEN FALSE ELSE synced
      [] o.op = "write" -> FALSE
      [] o.op = "flush" -> IF ok /\ sched = "Enabled" THEN TRUE ELSE synced
      [] OTHER -> IF ok THEN FALSE ELSE synced

\* History kept with the future: the length of the content its open found
\* in the tmp path, None when there was no file.
Found(o, ok, before) ==
    IF o.op = "open" /\ ok /\ fs.tmp_path # None THEN Some(Len(fs.tmp_path[1])) ELSE before

Awaits(o) ==
    /\ busy # None
    /\ busy[1].io = "pending"
    /\ busy[1].pc = o.op
    /\ busy[1].data = o.data

\* The blocking pool runs one operation.
IoStep ==
    \E o \in pool, ok \in BOOLEAN :
        /\ (o.op = "rename" /\ fs.tmp_path = None) => ~ok
        /\ \E after \in FsAfter(o, ok) : fs' = after
        /\ synced' = SyncedAfter(o, ok)
        /\ pool' = pool \ {o}
        /\ busy' = IF Awaits(o)
                   THEN Some([busy[1] EXCEPT !.io = IF ok THEN "ok" ELSE "err",
                                             !.found = Found(o, ok, @)])
                   ELSE busy
        /\ UNCHANGED <<sched, protocols, entries, latest, elapsed, outcome, bookObs, load_result, elsewhere>>

(***************************************************************************)
(* Time                                                                    *)
(***************************************************************************)
Cooldown == IF sched = "PersistPeerAddrs" THEN FLUSH_INTERVAL ELSE MIN_WRITE_INTERVAL

\* One second passes.  Above the cooldown the value of elapsed() decides nothing.
Tick ==
    /\ elapsed <= Cooldown
    /\ elapsed' = elapsed + 1
    /\ UNCHANGED <<sched, protocols, entries, latest, busy, pool, fs, synced, outcome, bookObs, load_result, elsewhere>>

\* A cooldown that is never over.
CooledDownNever(interval) == FALSE

\* A cooldown that is over when exactly the interval has passed.
CooledDownOrEqual(interval) == elapsed >= interval

\* flushed_at.elapsed() > FLUSH_INTERVAL; Enabled::can_flush
CooledDown(interval) == elapsed > interval

\* A poll that does not look at busy.
NeverWriting == FALSE

\* if let Some(busy_future) = self.busy.as_mut()
Writing == busy # None

(***************************************************************************)
(* PersistPeerAddrs::poll                                                  *)
(***************************************************************************)
PersistPeerAddrs_poll ==
    /\ sched = "PersistPeerAddrs"
    /\ IF Writing
       THEN PollFuture
       ELSE IF CooledDown(FLUSH_INTERVAL)
       THEN /\ \E s \in Snapshots(protocols) : busy' = Some(NewFuture(s))
            /\ UNCHANGED <<pool, elapsed, outcome>>
       ELSE UNCHANGED <<busy, pool, elapsed, outcome>>
    /\ UNCHANGED <<sched, protocols, entries, latest, fs, synced, bookObs, load_result, elsewhere>>

\* The driver reports an address while the scheduler runs.
DriverReport ==
    /\ sched = "PersistPeerAddrs"
    /\ \E a \in Addrs :
          report_peer_addr(CHOOSE p \in Peers : \A q \in Peers : p <= q,
                           CHOOSE pr \in Protocols : TRUE, a)
    /\ UNCHANGED <<schedVars, ncalls, last_report, load_result, elsewhere>>

(***************************************************************************)
(* Enabled::poll                                                           *)
(***************************************************************************)
\* A poll that persists whatever it is given.
DiffersAlways(new, old) == TRUE

\* &latest[..] != &self.entries[..]
Differs(new, old) == new # old

Enabled_poll ==
    /\ sched = "Enabled"
    /\ IF Writing
       THEN PollFuture /\ UNCHANGED entries
       ELSE IF CooledDown(MIN_WRITE_INTERVAL) /\ Differs(latest, entries)
       THEN /\ entries' = latest
            /\ busy' = Some(NewFuture(latest))
            /\ UNCHANGED <<pool, elapsed, outcome>>
       ELSE UNCHANGED <<entries, busy, pool, elapsed, outcome>>
    /\ UNCHANGED <<sched, protocols, latest, fs, synced, bookObs, load_result, elsewhere>>

\* The address lists the driver may hold: at most two addresses.
LatestValues == {<<>>} \cup {<<a>> : a \in Addrs}
                  \cup {<<a, b>> : a \in Addrs, b \in Addrs}

\* The driver's address list changes.
Discover ==
    /\ sched = "Enabled"
    /\ \E l \in LatestValues \ {latest} : latest' = l
    /\ UNCHANGED <<sched, protocols, entries, elapsed, busy, pool, fs, synced, outcome, bookObs, load_result, elsewhere>>

(***************************************************************************)
(* The process stops, abandoning a write in flight, and is started again:  *)
(* PersistPeerAddrs::load, PeerAddressesPersistence::init                  *)
(***************************************************************************)
\* A file that cannot be opened for reading.
Unreadable == <<<<0, <<>>>>>>

\* What persist_peer_addrs::load returns: Ok of the default when there is no
\* file, Ok of the decoded map, or the error of open or of serde_json.
LoadResult == IF fs.path = None \/ Decodable(fs.path[1]) THEN "Ok" ELSE "Err"

\* A load that takes what it can read of a file that does not decode.
RestoredProtocolsLenient ==
    IF fs.path # None /\ fs.path[1] # <<>> /\ fs.path[1] # Unreadable
    THEN Deserialize(fs.path[1])
    ELSE <<>>

\* persist_peer_addrs::load, and load's fallback to the default: no file, or
\* one that does not decode, gives the empty map.
RestoredProtocols ==
    IF fs.path # None /\ Decodable(fs.path[1]) THEN Deserialize(fs.path[1]) ELSE <<>>

\* init: no file, or one that does not decode, gives no entries.
RestoredEntries ==
    IF fs.path # None /\ Decodable(fs.path[1]) THEN Deserialize(fs.path[1]) ELSE <<>>

Restart ==
    /\ sched \in {"PersistPeerAddrs", "Enabled"}
    /\ load_result' = Some(LoadResult)
    /\ busy' = None
    /\ pool' = {}
    /\ elapsed' = 0
    /\ outcome' = None
    /\ IF sched = "PersistPeerAddrs"
       THEN Loaded(RestoredProtocols) /\ UNCHANGED entries
       ELSE entries' = RestoredEntries /\ UNCHANGED <<protocols, fresh, yielded>>
    /\ UNCHANGED <<sched, latest, fs, synced, snapshot, reported, evicted, ncalls, last_report, elsewhere>>

Next ==
    \/ Tick
    \/ PersistPeerAddrs_poll
    \/ DriverReport
    \/ Enabled_poll
    \/ Discover
    \/ IoStep
    \/ Restart

Spec == Init /\ [][Next]_vars

(***************************************************************************)
(* Loading the files a previous run, or anything else, left in the          *)
(* directory: PersistPeerAddrs::load and peersets::load                     *)
(***************************************************************************)
\* Peer identities as text: the base58 form of a peer, and text that is none.
Texts == {ToBase58(p) : p \in Peers}
BadText == <<"bad", 0>>

AddrLists == {<<"ip4">>, <<"ip6", "ip4">>}

\* Sequences over S of at most n elements.
SeqUpTo(S, n) == UNION {[1 .. k -> S] : k \in 0 .. n}

\* persist_peer_addrs::PeerEntry, as serde decodes it
FilePeerEntries ==
    [peer_id : Texts, addrs : AddrLists] \cup [peer_id : {BadText}, addrs : {<<"ip6">>}]

\* peersets::PeerInfo, as serde decodes it
FilePeerInfos ==
    [peer_id : Texts, reputation : {0, -1}, sets : {<<0>>}]
        \cup [peer_id : {BadText}, reputation : {0}, sets : {<<0>>}]

\* HashMap<ProtocolType, Vec<PeerEntry>> documents of at most n records a protocol
PeerAddrsDocuments(n) ==
    {<<>>} \cup {[pr \in D |-> es] : D \in {{"dot"}, Protocols},
                                     es \in SeqUpTo(FilePeerEntries, n)}

\* Vec<PeerInfo> documents of at most n records
PeerSetsDocuments(n) == SeqUpTo(FilePeerInfos, n)

\* What the final path may hold: nothing, a file that cannot be read, a
\* document of docs, or a part of a document of cut.
FilesOf(docs, cut) ==
    {None, Some(Unreadable)} \cup {Some(Serialize(d)) : d \in docs}
        \cup {Some(c) : c \in UNION {Partial(d) : d \in cut}}

\* peersets.into_iter().filter_map(..).collect()
ParsedPeerInfos(infos) ==
    LET IsOk(info) == ParseOk(info.peer_id)
        kept == SelectSeq(infos, IsOk)
    IN  [i \in 1 .. Len(kept) |->
            <<ParsePeerId(kept[i].peer_id), kept[i].reputation, kept[i].sets>>]

\* peersets::load
peersets_load ==
    /\ sched = "PersistPeersets"
    /\ load_result' = Some(LoadResult)
    /\ peerset' = IF fs.path # None /\ Decodable(fs.path[1])
                  THEN ParsedPeerInfos(Deserialize(fs.path[1]))
                  ELSE <<>>
    /\ UNCHANGED <<schedVars, protocols, bookObs, loopVars, phase, pathVars, connVars>>

\* The directory before the process starts.
InitLoad ==
    /\ sched \in {"PersistPeerAddrs", "PersistPeersets"}
    /\ fs \in [path : IF sched = "PersistPeerAddrs"
                       THEN FilesOf(PeerAddrsDocuments(MaxRecords), PeerAddrsDocuments(1))
                       ELSE FilesOf(PeerSetsDocuments(MaxRecords), PeerSetsDocuments(1)),
               tmp_path : {None}]
    /\ synced = FALSE
    /\ load_result = None
    /\ protocols = <<>>
    /\ entries = <<>>
    /\ latest = <<>>
    /\ elapsed = 0
    /\ busy = None
    /\ pool = {}
    /\ outcome = None
    /\ yielded = None
    /\ snapshot = None
    /\ reported = {}
    /\ evicted = {}
    /\ fresh = Some(<<>>)
    /\ ncalls = 0
    /\ last_report = None
    /\ peerset = <<>>
    /\ NotPolledYet
    /\ NoConnections
    /\ NetworkPaths

NextLoad == Restart \/ peersets_load

SpecLoad == InitLoad /\ [][NextLoad]_vars

(***************************************************************************)
(* PersistPeersets: a loop of ticks.tick() and peersets::persist            *)
(***************************************************************************)
\* MissedTickBehavior::Burst: each deadline that passed gets its own tick.
AfterTickBurst(m) == m - 1

\* MissedTickBehavior::Skip: the deadlines that passed are dropped, the next
\* tick is due at the next deadline of the original schedule.
AfterTick(m) == 0

\* ticks.tick().await, reached by the loop: it returns at once when a deadline
\* has passed, and then persist asks the peer set for its state.
AwaitTick ==
    IF missed >= 1
    THEN /\ missed' = AfterTick(missed)
         /\ skipped' = missed - 1
         /\ starts' = starts + 1
         /\ loop' = "dump"
         /\ dumped' = None
    ELSE /\ loop' = "tick"
         /\ dumped' = None
         /\ UNCHANGED <<missed, starts, skipped>>

\* A loop that ends with the first cycle that fails.
AfterCycleStopOnErr(result) ==
    IF result = "Err"
    THEN /\ loop' = "done"
         /\ dumped' = None
         /\ UNCHANGED <<missed, starts, skipped>>
    ELSE AwaitTick

\* if let Err(reason) = persist(..).await { warn }: whatever the result, the
\* loop goes on to the next tick.
AfterCycle(result) == AwaitTick

\* The dumped state as persist writes it.
PeerInfos(state) ==
    [i \in 1 .. Len(state) |->
        [peer_id |-> ToBase58(state[i][1]), reputation |-> state[i][2], sets |-> state[i][3]]]

\* PersistPeersets::poll: the future runs to its next await that is not ready.
PersistPeersets_poll ==
    /\ sched = "PersistPeersets"
    /\ CASE loop = "tick" ->
                /\ AwaitTick
                /\ UNCHANGED <<busy, pool, outcome>>
         [] loop = "dump" /\ dumped # None /\ dumped[1][1] = "Err" ->
                /\ outcome' = Some("Err")
                /\ AfterCycle("Err")
                /\ UNCHANGED <<busy, pool>>
         [] loop = "dump" /\ dumped # None /\ dumped[1][1] = "Ok" ->
                LET f == NewFuture(PeerInfos(dumped[1][2]))
                IN  /\ busy' = Some([f EXCEPT !.pc = PersistNext(f.pc, f.io), !.io = "pending"])
                    /\ pool' = pool \cup {Operation(f)}
                    /\ loop' = "persist"
                    /\ dumped' = None
                    /\ UNCHANGED <<missed, starts, skipped, outcome>>
         [] loop = "persist" /\ Ready(busy[1]) ->
                /\ busy' = None
                /\ outcome' = Some(PersistNext(busy[1].pc, busy[1].io))
                /\ AfterCycle(PersistNext(busy[1].pc, busy[1].io))
                /\ UNCHANGED pool
         [] loop = "persist" /\ Submits(busy[1]) ->
                /\ busy' = Some([busy[1] EXCEPT !.pc = PersistNext(busy[1].pc, busy[1].io),
                                                !.io = "pending"])
                /\ pool' = pool \cup {Operation(busy[1])}
                /\ UNCHANGED <<loopVars, outcome>>
         [] OTHER -> UNCHANGED <<loopVars, busy, pool, outcome>>
    /\ UNCHANGED <<sched, protocols, entries, latest, elapsed, fs, synced, bookObs,
                   load_result, peerset, phase, pathVars, connVars>>

\* The peer set answers dump_state, or the channel is closed.
DumpReplies ==
    /\ sched = "PersistPeersets"
    /\ loop = "dump"
    /\ dumped = None
    /\ dumped' \in {Some(<<"Ok", peerset>>), Some(<<"Err">>)}
    /\ UNCHANGED <<schedVars, protocols, bookObs, load_result, peerset, loop, missed,
                   starts, skipped, phase, pathVars, connVars>>

\* The states of the peer set that are told apart.
PeersetStates == {<<>>, <<<<1, 0, <<0>>>>>>, <<<<1, -1, <<0>>>>, <<2, 0, <<0>>>>>>}

\* The peer set changes.
PeersetChanges ==
    /\ sched = "PersistPeersets"
    /\ \E st \in PeersetStates \ {peerset} : peerset' = st
    /\ UNCHANGED <<schedVars, protocols, bookObs, load_result, loopVars, phase, pathVars, connVars>>

\* One second passes; every FLUSH_INTERVAL seconds a deadline of the interval.
IntervalTick ==
    /\ sched = "PersistPeersets"
    /\ phase' = (phase + 1) % FLUSH_INTERVAL
    /\ IF phase' = 0
       THEN /\ missed' = IF missed < MaxMissed THEN missed + 1 ELSE MaxMissed
            /\ starts' = 0
       ELSE UNCHANGED <<missed, starts>>
    /\ UNCHANGED <<schedVars, protocols, bookObs, load_result, peerset, loop, dumped, skipped, pathVars, connVars>>

InitPeersets ==
    /\ sched = "PersistPeersets"
    /\ protocols = <<>>
    /\ entries = <<>>
    /\ latest = <<>>
    /\ elapsed = 0
    /\ busy = None
    /\ pool = {}
    /\ fs = [path |-> None, tmp_path |-> None]
    /\ synced = FALSE
    /\ outcome = None
    /\ yielded = None
    /\ snapshot = None
    /\ reported = {}
    /\ evicted = {}
    /\ fresh = Some(<<>>)
    /\ ncalls = 0
    /\ last_report = None
    /\ load_result = Some("Ok")
    /\ peerset = <<>>
    /\ NotPolledYet
    /\ NoConnections
    /\ NetworkPaths

NextPeersets ==
    \/ PersistPeersets_poll
    \/ DumpReplies
    \/ PeersetChanges
    \/ IntervalTick
    \/ IoStep

\* The runtime polls a future that was woken, the blocking pool runs what it
\* was handed, the peer set answers or goes away, and time passes.
SpecPeersets ==
    /\ InitPeersets
    /\ [][NextPeersets]_vars
    /\ WF_vars(PersistPeersets_poll)
    /\ WF_vars(DumpReplies)
    /\ WF_vars(IntervalTick)
    /\ WF_vars(IoStep)

(***************************************************************************)
(* Paths::new on any directory and base name                               *)
(***************************************************************************)
Directories == SeqUpTo({<<"tmp">>, <<"net", "d">>}, MaxDepth)

\* Base names: the two the program uses and the one of test_paths, and the
\* same with a dot and one more piece.
BaseNames ==
    LET stems == {"peer-addrs", "peer-sets", "test"}
    IN  {<<st>> : st \in stems} \cup {<<st, x>> : st \in stems, x \in {"json", "tmp", "v2"}}

Construct ==
    /\ paths = None
    /\ paths' = Some(Paths_new(dir, name))
    /\ UNCHANGED <<schedVars, protocols, bookObs, load_result, peersetVars, dir, name, connVars>>

InitPaths ==
    /\ sched = "PersistPeerAddrs"
    /\ dir \in Directories
    /\ name \in BaseNames
    /\ paths = None
    /\ protocols = <<>>
    /\ entries = <<>>
    /\ latest = <<>>
    /\ elapsed = 0
    /\ busy = None
    /\ pool = {}
    /\ fs = [path |-> None, tmp_path |-> None]
    /\ synced = FALSE
    /\ outcome = None
    /\ yielded = None
    /\ snapshot = None
    /\ reported = {}
    /\ evicted = {}
    /\ fresh = Some(<<>>)
    /\ ncalls = 0
    /\ last_report = None
    /\ load_result = None
    /\ peerset = <<>>
    /\ NotPolledYet
    /\ NoConnections

NextPaths == Construct

SpecPaths == InitPaths /\ [][NextPaths]_vars

(***************************************************************************)
(* The connection tracker                                                  *)
(***************************************************************************)
ConnectionIds == 1 .. MaxConns

Tracked == DOMAIN connections

\* The map without peer p.
Untrack(m, p) == [q \in DOMAIN m \ {p} |-> m[q]]

\* A disconnect that keeps the entry of a peer whose last connection went.
AfterDisconnectKeepingEmpty(m, c, p) == [m EXCEPT ![p] = @ \ {c}]

\* The map after conn_id c of tracked peer p is removed: a peer left with no
\* connection is removed with it.
AfterDisconnect(m, c, p) ==
    IF m[p] \ {c} = {} THEN Untrack(m, p) ELSE [m EXCEPT ![p] = @ \ {c}]

\* on_connected(conn_id, peer, addr)
on_connected ==
    \E c \in ConnectionIds, p \in Peers :
        /\ ~aborted
        /\ IF p \in Tracked /\ c \in connections[p]
           THEN /\ aborted' = TRUE
                /\ last_event' = Some(<<"duplicate", c, p>>)
                /\ UNCHANGED connections
           ELSE /\ connections' = MapPut(connections, p,
                                         (IF p \in Tracked THEN connections[p] ELSE {}) \cup {c})
                /\ last_event' = Some(<<"connected", c, p>>)
                /\ UNCHANGED aborted
        /\ UNCHANGED <<schedVars, protocols, bookObs, load_result, peersetVars, pathVars>>

\* on_disconnected(conn_id, peer)
on_disconnected ==
    \E c \in ConnectionIds, p \in Peers :
        /\ ~aborted
        /\ IF p \in Tracked
           THEN /\ connections' = AfterDisconnect(connections, c, p)
                /\ last_event' = Some(<<"disconnected", c, p>>)
           ELSE /\ last_event' = Some(<<"stray", c, p>>)
                /\ UNCHANGED connections
        /\ UNCHANGED <<schedVars, protocols, bookObs, load_result, peersetVars, pathVars, aborted>>

\* The tracker of a process that has just started.
InitConn == Init /\ sched = "PersistPeerAddrs"

NextConn == on_connected \/ on_disconnected

SpecConn == InitConn /\ [][NextConn]_vars

(***************************************************************************)
(* The schedulers in a process that keeps running, with every file          *)
(* operation succeeding                                                     *)
(***************************************************************************)
\* The blocking pool runs one operation, and it succeeds.
IoSucceeds ==
    /\ IoStep
    /\ busy' # None
    /\ busy'[1].io = "ok"

NextLive ==
    \/ Tick
    \/ PersistPeerAddrs_poll
    \/ DriverReport
    \/ Enabled_poll
    \/ Discover
    \/ IoSucceeds

\* The driver polls again and again, time passes, and the blocking pool runs
\* what it was handed.
SpecLive ==
    /\ Init
    /\ [][NextLive]_vars
    /\ WF_vars(Tick)
    /\ WF_vars(PersistPeerAddrs_poll)
    /\ WF_vars(Enabled_poll)
    /\ WF_vars(IoSucceeds)

(***************************************************************************)
(* Properties of the book                                                  *)
(***************************************************************************)
PeerOrder(c) == [i \in 1 .. Len(c) |-> c[i].peer_id]

\* C5: a peer_addrs call, its iterator consumed, leaves the recency order of
\* every protocol's cache as it was.
C5_ReadsKeepRecency == [][yielded' # None => protocols' = protocols]_vars

\* C6 (capacity): no cache holds more than PEER_ADDRS_CACHE_SIZE peers.
WithinCapacity ==
    \A pr \in DOMAIN protocols : Len(protocols[pr]) <= PEER_ADDRS_CACHE_SIZE

\* C6 (the test of section 8): after capacity+1 distinct peers were reported
\* to an empty book under one protocol, the first is absent, the others present.
FirstInsertedGone ==
    (fresh # None /\ Len(fresh[1]) = PEER_ADDRS_CACHE_SIZE + 1) =>
        \A pr \in DOMAIN protocols :
            /\ fresh[1][1] \notin LruKeys(protocols[pr])
            /\ \A i \in 2 .. Len(fresh[1]) : fresh[1][i] \in LruKeys(protocols[pr])

\* C6 (in general): a step that brings a new peer into a full cache removes
\* exactly one entry, the least recently used, and leaves the others' addresses.
EvictsLeastRecent ==
    \A pr \in DOMAIN protocols :
        LET old == protocols[pr]
            new == protocols'[pr]
        IN  (Len(old) = PEER_ADDRS_CACHE_SIZE /\ LruKeys(new) \ LruKeys(old) # {}) =>
                /\ Cardinality(LruKeys(new) \ LruKeys(old)) = 1
                /\ LruKeys(old) \ LruKeys(new) = {old[Len(old)].peer_id}
                /\ \A q \in LruKeys(old) \cap LruKeys(new) : LruPeek(new, q) = LruPeek(old, q)

\* C6: LRU eviction at capacity.
C6_LruEviction == [](WithinCapacity /\ FirstInsertedGone) /\ [][EvictsLeastRecent]_vars

C6_Witness ==
    /\ fresh # None
    /\ Len(fresh[1]) = PEER_ADDRS_CACHE_SIZE + 1
    /\ evicted # {}

\* C7: peer_addrs yields only addresses reported for the peer under a requested
\* protocol, and every such address unless the peer's entry in that protocol's
\* cache was evicted.
C7_LookupSoundComplete ==
    yielded # None =>
        LET y == yielded[1]
        IN  /\ \A a \in y.addrs :
                  \E pr \in y.protocols : <<y.peer_id, pr, a>> \in reported
            /\ \A t \in reported :
                  (t[1] = y.peer_id /\ t[2] \in y.protocols /\ <<t[2], t[1]>> \notin evicted)
                      => t[3] \in y.addrs

C7_Witness ==
    /\ yielded # None
    /\ yielded[1].addrs # {}
    /\ \E t \in reported :
          /\ t[1] = yielded[1].peer_id
          /\ t[2] \notin yielded[1].protocols
          /\ t[3] \notin yielded[1].addrs

\* C8: a book loaded from the snapshot poll flattened out of a book has the
\* same protocols, the same peers per protocol and, per peer, the same set of
\* addresses.
C8_RoundTripContents ==
    (snapshot # None /\ snapshot[1].loaded) =>
        LET of == snapshot[1].of
        IN  /\ DOMAIN protocols = DOMAIN of
            /\ \A pr \in DOMAIN of :
                  /\ LruKeys(protocols[pr]) = LruKeys(of[pr])
                  /\ \A q \in LruKeys(of[pr]) :
                        LruPeek(protocols[pr], q) = LruPeek(of[pr], q)

C8_Witness ==
    /\ snapshot # None
    /\ snapshot[1].loaded
    /\ \E pr \in DOMAIN protocols :
          \E i \in 1 .. Len(protocols[pr]) :
              /\ Cardinality(protocols[pr][i].addrs) > 1
              /\ snapshot[1].entries[pr][i].addrs[1] = "ip6"

\* C9: a book loaded from the snapshot has every protocol's peers in the
\* recency order they had, so the next insertion evicts the same peer.
C9_RoundTripRecency ==
    (snapshot # None /\ snapshot[1].loaded) =>
        \A pr \in DOMAIN snapshot[1].of :
            /\ pr \in DOMAIN protocols
            /\ PeerOrder(protocols[pr]) = PeerOrder(snapshot[1].of[pr])
            /\ \A p \in Peers :
                  LruPushEvicts(protocols[pr], p) = LruPushEvicts(snapshot[1].of[pr], p)

C9_Witness ==
    /\ snapshot # None
    /\ snapshot[1].loaded
    /\ \E pr \in DOMAIN protocols :
          /\ Len(protocols[pr]) = PEER_ADDRS_CACHE_SIZE
          /\ \E p \in Peers : LruPushEvicts(protocols[pr], p) # {}

(***************************************************************************)
(* Properties of the schedulers                                            *)
(***************************************************************************)
\* The future of the next state is the one of this state, further on.
Continues == busy'[1].data = busy[1].data /\ (busy'[1].pc = "created" => busy[1].pc = "created")

\* C1: at most one write is in flight: the blocking pool holds at most one
\* file operation, the one busy awaits, and while busy is set no step starts
\* another write: busy is cleared or stays the same future.
C1_SingleWriteInFlight ==
    /\ [](Cardinality(pool) <= 1 /\ \A o \in pool : Awaits(o))
    /\ [][busy # None => (busy' = None \/ Continues)]_vars

C1_Witness ==
    /\ sched = "PersistPeerAddrs"
    /\ pool # {}
    /\ elapsed > Cooldown
    /\ busy[1].data \notin Snapshots(protocols)

\* The book is what the last write, which succeeded, put on the final path.
UnchangedSinceWrite ==
    /\ outcome = Some("Ok")
    /\ fs.path # None
    /\ Decodable(fs.path[1])
    /\ LoadBook(Deserialize(fs.path[1])) = protocols

\* C2: PersistPeerAddrs::poll starts no write while the book is unchanged since
\* the last successful write.
C2_NoOpSkip ==
    [][(sched = "PersistPeerAddrs" /\ busy = None /\ busy' # None) => ~UnchangedSinceWrite]_vars

\* C3: a write is in flight only when more than the cooldown has passed since
\* poll saw the previous write complete, or since construction; so poll sees
\* two writes complete more than a cooldown apart.
C3_Debounce == (busy # None \/ pool # {}) => elapsed > Cooldown

C3_Witness == busy # None /\ outcome # None

\* C4: the final path holds no file or a whole document; it changes only when
\* the rename runs, and then to the whole content of the write in flight.
C4_AtomicWrite ==
    /\ [](fs.path = None \/ Decodable(fs.path[1]))
    /\ [][fs.path' # fs.path =>
            \E o \in pool : /\ o.op = "rename"
                            /\ o \notin pool'
                            /\ fs.path' = Some(Serialize(o.data))]_vars

C4_Witness ==
    /\ fs.path # None
    /\ fs.tmp_path # None
    /\ busy = None
    /\ Len(fs.tmp_path[1]) > 0
    /\ ~Decodable(fs.tmp_path[1])

\* C10: in Enabled, entries is the snapshot of the write in flight and stays so
\* when the write fails, and poll starts a write only when latest differs from
\* entries: a failed write is not retried while latest equals its snapshot.
C10_NoRetryWithoutChange ==
    /\ []((sched = "Enabled" /\ busy # None) => busy[1].data = entries)
    /\ [][(sched = "Enabled" /\ busy # None /\ outcome' = Some("Err")) => entries' = entries]_vars
    /\ [][(sched = "Enabled" /\ busy = None /\ busy' # None) => latest # entries]_vars

C10_Witness ==
    /\ sched = "Enabled"
    /\ outcome = Some("Err")
    /\ busy = None
    /\ elapsed > MIN_WRITE_INTERVAL
    /\ latest = entries

\* A step on a completed future that does one of the things poll does when it
\* finds the future ready.
ObservesCompletion ==
    /\ busy # None
    /\ Ready(busy[1])
    /\ outcome' # None
    /\ (busy' = None \/ elapsed' = 0 \/ outcome' # outcome)

\* C11: when poll finds the write in flight completed, with Ok or with an
\* error, busy is cleared, the cooldown baseline is the completion time, the
\* result goes no further than poll, and the book, entries and the files are
\* as they were.
C11_WritingToIdle ==
    [][ObservesCompletion =>
          /\ busy' = None
          /\ elapsed' = 0
          /\ outcome' = Some(PersistNext(busy[1].pc, busy[1].io))
          /\ protocols' = protocols
          /\ entries' = entries
          /\ fs' = fs]_vars

C11_Witness ==
    /\ outcome = Some("Err")
    /\ busy = None
    /\ elapsed = 0
    /\ (protocols # <<>> \/ entries # <<>>)

(***************************************************************************)
(* Properties of the loads                                                 *)
(***************************************************************************)
HasBadRecord(es) == \E i \in 1 .. Len(es) : ~ParseOk(es[i].peer_id)

\* The records of es whose identity parses, in the order of the file.
ValidRecords(es) ==
    LET IsOk(e) == ParseOk(e.peer_id)
    IN  SelectSeq(es, IsOk)

\* The records name distinct peers, no more of them than a cache holds.
FitsACache(es) ==
    /\ Len(es) <= PEER_ADDRS_CACHE_SIZE
    /\ \A i, j \in 1 .. Len(es) : es[i].peer_id = es[j].peer_id => i = j

\* The file is there and decodes.
FileDecodes == fs.path # None /\ Decodable(fs.path[1])

\* C12: a file that decodes loads with Ok whatever identities it holds.  Of a
\* peer-addrs file each protocol's cache is the one the records with a
\* parsable identity alone would give, and when they fit a cache it holds
\* exactly them, in the order of the file, each with the addresses stored
\* with it; of a peer-sets file the result is exactly the records with a
\* parsable identity, in order, each with its reputation and sets.
C12_LoadToleratesBadRecords ==
    (load_result # None /\ FileDecodes) =>
        /\ load_result = Some("Ok")
        /\ sched = "PersistPeerAddrs" =>
              LET doc == Deserialize(fs.path[1])
              IN  /\ DOMAIN protocols = DOMAIN doc
                  /\ \A pr \in DOMAIN doc :
                        LET valid == ValidRecords(doc[pr])
                        IN  /\ protocols[pr] = LoadCache(valid)
                            /\ FitsACache(valid) =>
                                  protocols[pr] =
                                      [i \in 1 .. Len(valid) |->
                                          [peer_id |-> valid[i].peer_id[2],
                                           addrs |-> Range(valid[i].addrs)]]
        /\ sched = "PersistPeersets" =>
              LET valid == ValidRecords(Deserialize(fs.path[1]))
              IN  peerset = [i \in 1 .. Len(valid) |->
                                <<valid[i].peer_id[2], valid[i].reputation, valid[i].sets>>]

C12_Witness ==
    /\ load_result = Some("Ok")
    /\ sched = "PersistPeerAddrs"
    /\ FileDecodes
    /\ \E pr \in DOMAIN protocols :
          /\ HasBadRecord(Deserialize(fs.path[1])[pr])
          /\ Len(protocols[pr]) = PEER_ADDRS_CACHE_SIZE

\* C13: PersistPeerAddrs::load always gives a book with no write in flight
\* and the cooldown starting; with no file the book is empty and the inner
\* load returned Ok; with a file that cannot be read or does not decode the
\* book is empty and the error went no further than the warning.
C13_ConstructionNeverFails ==
    (load_result # None /\ sched = "PersistPeerAddrs") =>
        /\ busy = None
        /\ pool = {}
        /\ elapsed = 0
        /\ WithinCapacity
        /\ \A pr \in DOMAIN protocols :
              \A i, j \in 1 .. Len(protocols[pr]) :
                  protocols[pr][i].peer_id = protocols[pr][j].peer_id => i = j
        /\ fs.path = None => (protocols = <<>> /\ load_result = Some("Ok"))
        /\ (fs.path # None /\ ~Decodable(fs.path[1])) =>
              (protocols = <<>> /\ load_result = Some("Err"))

C13_Witness ==
    /\ sched = "PersistPeerAddrs"
    /\ load_result = Some("Err")
    /\ protocols = <<>>
    /\ fs.path # None
    /\ fs.path[1] \notin {<<>>, Unreadable}

(***************************************************************************)
(* More properties of the book                                             *)
(***************************************************************************)
\* A report_peer_addr call with the arguments of the call right before it.
RepeatsReport ==
    /\ last_report # None
    /\ last_report' # None
    /\ ncalls' = ncalls + 1
    /\ last_report'[1].args = last_report[1].args

\* C14: a report_peer_addr call that repeats the call made right before it
\* leaves the book as it was: the protocols, each protocol's peers and their
\* recency order, and every address set.
C14_ReportIdempotent == [][RepeatsReport => protocols' = protocols]_vars

C14_Witness ==
    /\ last_report # None
    /\ last_report[1].again
    /\ evicted # {}
    /\ Len(protocols[last_report[1].args[2]]) = PEER_ADDRS_CACHE_SIZE

(***************************************************************************)
(* Properties of the peer-set snapshotter                                  *)
(***************************************************************************)
\* A cycle of the loop ends in an error: of dump_state or of a file step.
CycleFails ==
    \/ loop = "dump" /\ dumped = Some(<<"Err">>) /\ dumped' # dumped
    \/ /\ loop = "persist"
       /\ PersistNext(busy[1].pc, busy[1].io) = "Err"
       /\ busy' # busy

\* C15: a cycle that fails, in dump_state or in a file step, leaves the loop
\* running and the final file as it is: the final file changes only by the
\* rename that ends a cycle with Ok.  The loop then waits for a tick and
\* starts a whole cycle again, so cycles start again and again whatever
\* fails; and there is never more than one persist in progress.
C15_FailuresPerCycle ==
    /\ [][CycleFails => /\ loop' \in {"tick", "dump"}
                        /\ outcome' = Some("Err")
                        /\ busy' = None
                        /\ fs' = fs]_vars
    /\ [][fs.path' # fs.path =>
            (busy' # None /\ busy'[1].pc = "rename" /\ busy'[1].io = "ok")]_vars
    /\ [](Cardinality(pool) <= 1)
    /\ []((busy # None) <=> (loop = "persist"))
    /\ []((pool # {}) => (busy # None /\ busy[1].io = "pending"))
    /\ []<>(loop = "dump" /\ dumped = None)

C15_Witness ==
    /\ outcome = Some("Err")
    /\ loop = "dump"
    /\ fs.path # None
    /\ fs.tmp_path # None
    /\ fs.tmp_path # fs.path

\* C16: a tick() that returns after deadlines were missed drops them: none is
\* left to return for, and no more than one cycle starts between two
\* deadlines of the interval.
C16_MissedTicksCoalesced ==
    /\ [](starts <= 1)
    /\ [][starts' = starts + 1 => missed' = 0]_vars

C16_Witness ==
    /\ skipped >= 1
    /\ starts = 1
    /\ loop = "tick"
    /\ missed = 0
    /\ outcome = Some("Ok")

(***************************************************************************)
(* Properties of the files                                                 *)
(***************************************************************************)
\* The blocking pool runs a rename, and the tmp file becomes the final one.
RenameRuns ==
    /\ fs.tmp_path # None
    /\ fs'.tmp_path = None
    /\ \E o \in pool : o.op = "rename" /\ o \notin pool'

\* C17: whenever a persist renames the tmp file onto the final path, the
\* whole content was written to the tmp file and forced to stable storage.
C17_DurableBeforeRename ==
    [][RenameRuns => (synced /\ \E o \in pool : fs.tmp_path = Some(Serialize(o.data)))]_vars

(***************************************************************************)
(* Properties of the paths                                                 *)
(***************************************************************************)
\* d/n.json and d/n.tmp
Beside(d, n, ext) == Append(d, Append(n, ext))

\* C18 as stated: for every directory d and base name n, Paths::new(d, n) is
\* the pair d/n.json, d/n.tmp.
C18_PathPairOfAnyName ==
    paths # None =>
        /\ paths[1].path = Beside(dir, name, "json")
        /\ paths[1].tmp_path = Beside(dir, name, "tmp")

\* C18, amended: Paths::new(d, n) is the pair d/s.json, d/s.tmp, s being n
\* without what follows its last dot: d/n.json and d/n.tmp for every n that
\* has no dot.  The two paths are distinct, the pairs of peer-addrs and of
\* peer-sets have no path in common, and peersets::load opens the path
\* peersets::persist renames onto.
C18_PathPair ==
    paths # None =>
        /\ paths[1].path = Beside(dir, FileStem(name), "json")
        /\ paths[1].tmp_path = Beside(dir, FileStem(name), "tmp")
        /\ Len(name) = 1 => /\ paths[1].path = Beside(dir, name, "json")
                            /\ paths[1].tmp_path = Beside(dir, name, "tmp")
        /\ paths[1].path # paths[1].tmp_path
        /\ LET a == Paths_new(dir, <<"peer-addrs">>)
               b == Paths_new(dir, <<"peer-sets">>)
           IN  /\ {a.path, a.tmp_path} \cap {b.path, b.tmp_path} = {}
               /\ Cardinality({a.path, a.tmp_path, b.path, b.tmp_path}) = 4
               /\ PeersetsLoadPath(dir) = b.path

C18_Witness ==
    /\ paths # None
    /\ dir = <<<<"tmp">>>>
    /\ name = <<"test">>
    /\ paths[1].path = <<<<"tmp">>, <<"test", "json">>>>
    /\ paths[1].tmp_path = <<<<"tmp">>, <<"test", "tmp">>>>

(***************************************************************************)
(* Properties of the connection tracker                                    *)
(***************************************************************************)
\* The event that the step is, when it is one of the given kind.
EventIs(kind) ==
    /\ last_event' # last_event
    /\ last_event'[1][1] = kind

\* C19: a peer is in the tracker exactly when it has a connection id: no
\* tracked peer has an empty set.  A disconnect that takes the last id of a
\* peer removes the peer, a disconnect of an untracked peer changes nothing
\* and does not abort, and a connect of a pair that is connected aborts, and
\* nothing else does.
C19_ConnectionState ==
    /\ [](\A p \in Tracked : connections[p] # {})
    /\ [][\A p \in Tracked :
            (EventIs("disconnected") /\ last_event'[1][3] = p
                /\ connections[p] \ {last_event'[1][2]} = {})
            => p \notin DOMAIN connections']_vars
    /\ [][EventIs("stray") => (/\ last_event'[1][3] \notin Tracked
                               /\ connections' = connections
                               /\ ~aborted')]_vars
    /\ [][(~aborted /\ aborted') =>
            (/\ last_event'[1][1] = "duplicate"
             /\ last_event'[1][3] \in Tracked
             /\ last_event'[1][2] \in connections[last_event'[1][3]])]_vars
    /\ [][EventIs("connected") =>
            (/\ ~aborted'
             /\ last_event'[1][2] \in connections'[last_event'[1][3]]
             /\ (last_event'[1][3] \in Tracked =>
                    last_event'[1][2] \notin connections[last_event'[1][3]]))]_vars

C19_Witness ==
    /\ last_event # None
    /\ last_event[1][1] = "disconnected"
    /\ last_event[1][3] \notin Tracked
    /\ Tracked # {}
    /\ ~aborted

\* The write in flight has got as far as its rename, which will run or ran.
OpenFoundStale == busy # None /\ busy[1].pc = "rename" /\ busy[1].found # None

\* C20: a persist that runs to its rename after its open found a tmp file
\* left by an earlier persist, of whatever length, leaves in the final path
\* the whole snapshot it was given and nothing else; the open left the tmp
\* file empty.
C20_StaleTmpHarmless ==
    /\ [][(RenameRuns /\ OpenFoundStale) =>
            /\ fs'.path = Some(Serialize(busy[1].data))
            /\ Decodable(fs'.path[1])]_vars
    /\ [][(busy # None /\ busy' # None /\ busy[1].pc = "open" /\ busy'[1].io = "ok"
             /\ busy[1].io = "pending") => fs'.tmp_path = Some(<<>>)]_vars

C20_Witness ==
    /\ OpenFoundStale
    /\ busy[1].io = "ok"
    /\ fs.path = Some(Serialize(busy[1].data))
    /\ busy[1].found[1] > Len(fs.path[1])
    /\ fs.tmp_path = None

(***************************************************************************)
(* Properties of a write in flight                                         *)
(***************************************************************************)
IsPrefix(q, r) == Len(q) <= Len(r) /\ q = SubSeq(r, 1, Len(q))

\* What the scheduler would snapshot now.
CurrentSnapshots == IF sched = "Enabled" THEN {latest} ELSE Snapshots(protocols)

\* A report_peer_addr call, or a change of the driver's list, during a write.
ChangesDuringWrite ==
    /\ busy # None
    /\ busy' # None
    /\ (protocols' # protocols \/ latest' # latest)

FinalDecodes == fs.path # None /\ Decodable(fs.path[1])

\* The final path holds a snapshot with address t[3] of peer t[1] under
\* protocol t[2], and no write is in flight.
PersistedReport(t) ==
    /\ sched = "PersistPeerAddrs"
    /\ busy = None
    /\ FinalDecodes
    /\ LET doc == Deserialize(fs.path[1])
       IN  /\ t[2] \in DOMAIN doc
           /\ \E i \in 1 .. Len(doc[t[2]]) :
                 /\ doc[t[2]][i].peer_id = ToBase58(t[1])
                 /\ t[3] \in Range(doc[t[2]][i].addrs)

\* The final path holds the address list l, and no write is in flight; the
\* empty list a process starts with needs no file.
PersistedList(l) ==
    /\ busy = None
    /\ entries = l
    /\ \/ fs.path = Some(Serialize(l))
       \/ l = <<>> /\ fs.path = None

ReportStep == ncalls' = ncalls + 1 /\ last_report' # None

\* C23: after report_peer_addr the reported peer is the most recently used
\* entry of the protocol's cache, whether it had an entry or not and whether
\* the address is new or not; an entry it had keeps its addresses and gains
\* the reported one, the other entries keep their order, and a report that
\* evicts drops the entry that was least recently used, which after a
\* re-report is no longer the re-reported peer.
C23_ReportRefreshesRecency ==
    [][ReportStep =>
         LET p == last_report'[1].args[1]
             pr == last_report'[1].args[2]
             a == last_report'[1].args[3]
             old == EntryOrInsert(protocols, pr)
             new == protocols'[pr]
         IN  /\ new[1].peer_id = p
             /\ new[1].addrs = (IF p \in LruKeys(old) THEN LruPeek(old, p) ELSE {}) \cup {a}
             /\ p \in LruKeys(old) =>
                   /\ Len(new) = Len(old)
                   /\ Tail(new) = LruRemoveAt(old, LruIndex(old, p))
             /\ (p \notin LruKeys(old) /\ Len(old) = PEER_ADDRS_CACHE_SIZE) =>
                   Tail(new) = SubSeq(old, 1, Len(old) - 1)]_vars

\* Capacity N: p1 .. pN are inserted, p1 is reported again with another
\* address, a new peer is inserted; p2 is gone, p1 is there with both.
C23_Witness ==
    /\ ncalls = PEER_ADDRS_CACHE_SIZE + 2
    /\ DOMAIN protocols = {"dot"}
    /\ Cardinality(reported) = PEER_ADDRS_CACHE_SIZE + 2
    /\ evicted = {<<"dot", 2>>}
    /\ 1 \in LruKeys(protocols["dot"])
    /\ LruPeek(protocols["dot"], 1) = Addrs
    /\ last_report # None
    /\ last_report[1].args[1] = PEER_ADDRS_CACHE_SIZE + 1
    /\ protocols["dot"][1].peer_id = PEER_ADDRS_CACHE_SIZE + 1

====
